---- MODULE Spec2Model ----
(***************************************************************************)
(* Stepper motor driver xdrv_23_stepper (Sonoff-Tasmota).                  *)
(*                                                                         *)
(* The model follows the Timer1 based driver with persisted settings       *)
(* (src/unnamed/part_000): the command handlers StepperCmndCalibrate,      *)
(* StepperCmndSpeed and StepperCmndStep run in the main context, the       *)
(* sequencer stepper_timer_isr runs as the Timer1 NMI handler whenever the *)
(* TEIE1 interrupt enable bit is set: the single-shot timer is loaded on   *)
(* every path that starts a motion, and an expiry that falls while TEIE1   *)
(* is clear is served once TEIE1 is set again.                             *)
(*                                                                         *)
(* The main context is cut at the points where the interrupt can see a     *)
(* difference: a stretch of a handler that only touches locals, or that    *)
(* runs with TEIE1 cleared, is one step.                                   *)
(***************************************************************************)
EXTENDS Integers, Sequences, FiniteSets, TLC

(***************************************************************************)
(* Bounds of the model                                                     *)
(***************************************************************************)
\* Move commands are issued only with targets inside 0..PosBound
PosBound == 1

Positions == 0..PosBound

\* in the logged runs, targets are inside 0..LogBound
LogBound == 6

LogPositions == 0..LogBound

\* in the logged runs with commands issued while stepping, targets are inside
\* 0..BusyBound
BusyBound == 2

BusyPositions == 0..BusyBound

(***************************************************************************)
(* Fixed-width integers                                                    *)
(***************************************************************************)
ToUint16(x) == x % 65536

ToInt16(x) == LET m == x % 65536 IN IF m >= 32768 THEN m - 65536 ELSE m

ToUint8(x) == x % 256

(***************************************************************************)
(* Phase states and the scheme table                                       *)
(***************************************************************************)
\* struct stepper_state_t: field order A_pos, B_pos, A_neg, B_neg, A_ena, B_ena
St(ap, bp, an, bn, ae, be) ==
  [A_pos |-> ap, B_pos |-> bp, A_neg |-> an, B_neg |-> bn, A_ena |-> ae, B_ena |-> be]

all_off == St(0,0,0,0, 0,0)

rotating_wave ==
  << St(1,0,0,0, 1,1),
     St(0,1,0,0, 1,1),
     St(0,0,1,0, 1,1),
     St(0,0,0,1, 1,1) >>

full_step ==
  << St(1,0,0,1, 1,1),
     St(1,1,0,0, 1,1),
     St(0,1,1,0, 1,1),
     St(0,0,1,1, 1,1) >>

half_step ==
  << St(1,0,0,1, 1,1),
     St(1,0,0,0, 1,1),
     St(1,1,0,0, 1,1),
     St(0,1,0,0, 1,1),
     St(0,1,1,0, 1,1),
     St(0,0,1,0, 1,1),
     St(0,0,1,1, 1,1),
     St(0,0,0,1, 1,1) >>

half_step_inhibit ==
  << St(1,0,0,1, 1,1),
     St(1,0,0,1, 1,0),
     St(1,1,0,0, 1,1),
     St(1,1,0,0, 0,1),
     St(0,1,1,0, 1,1),
     St(0,1,1,0, 1,0),
     St(0,0,1,1, 1,1),
     St(0,0,1,1, 0,1) >>

\* the phase table a scheme's `phases` pointer names; "null" is the zero
\* pointer of the zero-initialised global current_scheme
PhaseTable(name) ==
  CASE name = "rotating_wave"     -> rotating_wave
    [] name = "full_step"         -> full_step
    [] name = "half_step"         -> half_step
    [] name = "half_step_inhibit" -> half_step_inhibit
    [] OTHER                      -> << >>

\* control_schemes[], indexed from 0 as in the source
control_schemes ==
  [n \in 0..3 |->
     CASE n = 0 -> [phases |-> "rotating_wave",     max_phase |-> Len(rotating_wave)]
       [] n = 1 -> [phases |-> "full_step",         max_phase |-> Len(full_step)]
       [] n = 2 -> [phases |-> "half_step",         max_phase |-> Len(half_step)]
       [] n = 3 -> [phases |-> "half_step_inhibit", max_phase |-> Len(half_step_inhibit)]]

SCHEMES_MAX == 4

\* the zero-initialised global `stepper_control_scheme_t current_scheme`
NullScheme == [phases |-> "null", max_phase |-> 0]

\* what reading current_scheme.phases[i] can give when the pointer is null
\* or i is outside the table: some byte of memory
GarbageStates == { all_off, St(1,1,1,1, 1,1) }

\* the values current_scheme.phases[i] can yield
PhaseRead(scheme, i) ==
  IF i >= 0 /\ i < Len(PhaseTable(scheme.phases))
    THEN { PhaseTable(scheme.phases)[i + 1] }
    ELSE GarbageStates

(***************************************************************************)
(* Timer1 interrupt enable register                                        *)
(***************************************************************************)
\* of the register TEIE the model keeps the bit TEIE1 (the Timer1 edge
\* interrupt enable): TEIE is 0 or TEIE1
TEIE1 == 2

HasTEIE1(r) == (r \div TEIE1) % 2 = 1

\* TEIE &= ~TEIE1
ClearTEIE1(r) == IF HasTEIE1(r) THEN r - TEIE1 ELSE r

\* TEIE |= TEIE1
SetTEIE1(r) == IF HasTEIE1(r) THEN r ELSE r + TEIE1

\* TEIE |= ~TEIE1 : sets every bit but TEIE1, which stays as it is
OrNotTEIE1(r) == r

(***************************************************************************)
(* Command arguments as the parsers see them                               *)
(***************************************************************************)
\* a token of the comma separated argument list, by what strtol makes of it:
\*   "empty" - only white space (the argument keeps its default)
\*   "num"   - strtol consumed digits and returned val
\*   "text"  - strtol consumed nothing (p == str); state is what
\*             GetStateNumber returns for the text
EmptyTok == [kind |-> "empty"]
Num(n)   == [kind |-> "num", val |-> n]
Text(s)  == [kind |-> "text", state |-> s]

\* positions asked for on the command line
ReqPos == { 1 }

\* tick periods asked for on the command line
ReqTick == { 500 }

\* scheme codes asked for on the command line
ReqScheme == { 0 - 1, 0, 1, 2, 3, 4 }

PosToks    == { Num(v) : v \in ReqPos } \cup { EmptyTok, Text(0 - 1) }
FlagToks   == { EmptyTok, Num(0), Num(1), Num(2), Text(1) }
TickToks   == { Num(v) : v \in ReqTick } \cup { EmptyTok, Text(0 - 1) }
SchemeToks == { Num(v) : v \in ReqScheme } \cup { EmptyTok, Text(0 - 1) }

\* argument lists of the step command: 0 to 3 tokens
StepArgs ==
  { << >> } \cup { <<p>> : p \in PosToks }
            \cup { <<p, a>> : p \in PosToks, a \in FlagToks }
            \cup { <<p, a, l>> : p \in PosToks, a \in FlagToks, l \in FlagToks }

\* argument lists of the speed command: 0 to 2 tokens
SpeedArgs ==
  { << >> } \cup { <<t>> : t \in TickToks }
            \cup { <<t, c>> : t \in TickToks, c \in SchemeToks }

\* stored settings the device can boot with
StoredPos    == { <<0, 0>>, <<255, 255>> }
StoredScheme == { 0, 1, 2, 3, 200 }
StoredTick   == { 2000 }

\* pin[] as configured: 99 marks a pin that is not configured
PinNames == { "A_ena", "A_pos", "A_neg", "B_ena", "B_pos", "B_neg" }
PinConfigs ==
  { [A_ena |-> 4,  A_pos |-> 12, A_neg |-> 13, B_ena |-> 5,  B_pos |-> 14, B_neg |-> 15],
    [A_ena |-> 4,  A_pos |-> 12, A_neg |-> 13, B_ena |-> 99, B_pos |-> 14, B_neg |-> 15],
    [A_ena |-> 4,  A_pos |-> 12, A_neg |-> 99, B_ena |-> 5,  B_pos |-> 14, B_neg |-> 15] }

PIN_NONE == 99

(***************************************************************************)
(* State                                                                   *)
(***************************************************************************)
VARIABLES
  pin,                  \* pin[GPIO_STEPPER_*]
  enabled,
  have_enable_pins,
  idle,
  current_phase,
  wanted_pos,
  lock_when_done,
  tick_us,
  current_scheme_index,
  current_scheme,
  current_pos,
  Settings,             \* pwm_value[0], pwm_value[1], pwm_value[5], pwm_frequency
  TEIE,                 \* timer edge interrupt enable register
  isr_attached,         \* stepper_timer_isr is the Timer1 NMI handler
  gpio,                 \* level of each output, -1 while never written
  pin_writes,           \* the digitalWrite calls of the last StepperSet, in order
  pc,                   \* where the main context is
  cmd,                  \* locals of the command handler in progress; wrote
                        \* tells whether it has assigned a shared variable
  logging,              \* whether episode is kept
  episode               \* the last Move and the phase indices stepped to since

motion_but_tick == << current_pos, wanted_pos, current_phase, current_scheme_index,
                      current_scheme, idle, lock_when_done >>

motion == << current_pos, wanted_pos, current_phase, current_scheme_index,
             current_scheme, idle, lock_when_done, tick_us >>

timer == << TEIE, isr_attached >>

outputs == << gpio, pin_writes >>

config == << pin, enabled, have_enable_pins >>

vars == << pin, enabled, have_enable_pins, idle, current_phase, wanted_pos,
           lock_when_done, tick_us, current_scheme_index, current_scheme,
           current_pos, Settings, TEIE, isr_attached, gpio,
           pin_writes, pc, cmd, logging, episode >>

NoCmd == [op |-> "none"]

NoEpisode == [op |-> "none"]

\* what a new Move keeps of the episode ep it follows; arrived tells whether
\* ep had ended when the new Move was issued
Before(ep) ==
  IF ep.op = "move"
    THEN [op |-> "move", is_absolute |-> ep.is_absolute, req_pos |-> ep.req_pos,
          from_phase |-> ep.from_phase, steps |-> Len(ep.phases), arrived |-> idle,
          after_calibrate |-> (ep.prior.op = "calibrate")]
  ELSE IF ep.op = "calibrate" THEN ep
  ELSE NoEpisode

(***************************************************************************)
(* Phase output driver                                                     *)
(***************************************************************************)
\* StepperSetWrites with both enable lines written after the direction lines
StepperSetWrites_enablesLast(st) ==
  << <<"A_pos", st.A_pos>>, <<"A_neg", st.A_neg>>,
     <<"B_pos", st.B_pos>>, <<"B_neg", st.B_neg>> >>
  \o (IF have_enable_pins
        THEN << <<"A_ena", st.A_ena>>, <<"B_ena", st.B_ena>> >>
        ELSE << >>)

\* the digitalWrite calls StepperSet makes for st, in order
StepperSetWrites(st) ==
  (IF have_enable_pins
     THEN (IF st.A_ena = 0 THEN << <<"A_ena", 0>> >> ELSE << >>)
          \o (IF st.B_ena = 0 THEN << <<"B_ena", 0>> >> ELSE << >>)
     ELSE << >>)
  \o << <<"A_pos", st.A_pos>>, <<"A_neg", st.A_neg>>,
        <<"B_pos", st.B_pos>>, <<"B_neg", st.B_neg>> >>
  \o (IF have_enable_pins
        THEN (IF st.A_ena = 1 THEN << <<"A_ena", 1>> >> ELSE << >>)
             \o (IF st.B_ena = 1 THEN << <<"B_ena", 1>> >> ELSE << >>)
        ELSE << >>)

\* the pin levels after the writes ws, starting from g
RECURSIVE ApplyWrites(_, _)
ApplyWrites(g, ws) ==
  IF ws = << >> THEN g
  ELSE ApplyWrites([g EXCEPT ![Head(ws)[1]] = Head(ws)[2]], Tail(ws))

StepperSet(st) ==
  /\ pin_writes' = StepperSetWrites(st)
  /\ gpio' = ApplyWrites(gpio, StepperSetWrites(st))

(***************************************************************************)
(* Persisted position                                                      *)
(***************************************************************************)
\* Settings after SaveCurrentPos() with current_pos = p
SaveCurrentPos(s, p) ==
  [s EXCEPT !.pwm_value0 = ToUint8(p % 256),
            !.pwm_value1 = ToUint8((p \div 256) % 256)]

\* RestorePos without the (int16_t) cast
RestorePos_unsigned(s) == s.pwm_value0 + ToUint16(s.pwm_value1) * 256

\* current_pos as StepperInit rebuilds it from pwm_value[0..1]
RestorePos(s) == ToInt16(s.pwm_value0 + ToUint16(s.pwm_value1) * 256)

(***************************************************************************)
(* Scheme selection                                                        *)
(***************************************************************************)
\* SelectScheme without the current_phase = 0
SelectScheme_keepsPhase(n, s) ==
  IF n < 0 \/ n >= SCHEMES_MAX THEN [s EXCEPT !.ret = FALSE]
  ELSE IF n = s.current_scheme_index THEN [s EXCEPT !.ret = TRUE]
  ELSE [s EXCEPT !.ret = TRUE,
                 !.current_scheme_index = n,
                 !.wanted_pos = s.current_pos,
                 !.current_scheme = control_schemes[n],
                 !.pwm_value5 = n,
                 !.TEIE = IF ~s.idle THEN OrNotTEIE1(ClearTEIE1(s.TEIE))
                                     ELSE ClearTEIE1(s.TEIE)]

\* SelectScheme without the wanted_pos = current_pos
SelectScheme_keepsTarget(n, s) ==
  IF n < 0 \/ n >= SCHEMES_MAX THEN [s EXCEPT !.ret = FALSE]
  ELSE IF n = s.current_scheme_index THEN [s EXCEPT !.ret = TRUE]
  ELSE [s EXCEPT !.ret = TRUE,
                 !.current_scheme_index = n,
                 !.current_phase = 0,
                 !.current_scheme = control_schemes[n],
                 !.pwm_value5 = n,
                 !.TEIE = IF ~s.idle THEN OrNotTEIE1(ClearTEIE1(s.TEIE))
                                     ELSE ClearTEIE1(s.TEIE)]

\* SelectScheme(n) run on the globals held in the record s; s.ret is the
\* value returned
SelectScheme(n, s) ==
  IF n < 0 \/ n >= SCHEMES_MAX THEN [s EXCEPT !.ret = FALSE]
  ELSE IF n = s.current_scheme_index THEN [s EXCEPT !.ret = TRUE]
  ELSE [s EXCEPT !.ret = TRUE,
                 !.current_scheme_index = n,
                 !.wanted_pos = s.current_pos,
                 !.current_phase = 0,
                 !.current_scheme = control_schemes[n],
                 !.pwm_value5 = n,
                 !.TEIE = IF ~s.idle THEN OrNotTEIE1(ClearTEIE1(s.TEIE))
                                     ELSE ClearTEIE1(s.TEIE)]

\* the globals SelectScheme reads and writes, as they are now
SchemeGlobals ==
  [ret |-> FALSE, current_scheme_index |-> current_scheme_index,
   wanted_pos |-> wanted_pos, current_phase |-> current_phase,
   current_scheme |-> current_scheme, pwm_value5 |-> Settings.pwm_value5,
   TEIE |-> TEIE, current_pos |-> current_pos, idle |-> idle]

(***************************************************************************)
(* Startup                                                                 *)
(***************************************************************************)
Init ==
  /\ pin \in PinConfigs
  /\ enabled = FALSE
  /\ have_enable_pins = FALSE
  /\ idle = FALSE
  /\ current_phase = 0
  /\ wanted_pos = 0
  /\ lock_when_done = FALSE
  /\ tick_us = 0
  /\ current_scheme_index = 0
  /\ current_scheme = NullScheme
  /\ current_pos = 0
  /\ \E p \in StoredPos, c \in StoredScheme, t \in StoredTick :
       Settings = [pwm_value0 |-> p[1], pwm_value1 |-> p[2],
                   pwm_value5 |-> c, pwm_frequency |-> t]
  /\ TEIE \in { 0, TEIE1 }        \* Timer1 may be in use for the PWMs
  /\ isr_attached = FALSE
  /\ gpio = [p \in PinNames |-> 0 - 1]
  /\ pin_writes = << >>
  /\ pc = "boot"
  /\ cmd = NoCmd
  /\ logging = FALSE
  /\ episode = NoEpisode

\* the digitalWrite calls of StepperInit, in order
InitWrites(en, have) ==
  IF ~en THEN << >>
  ELSE (IF have THEN << <<"A_ena", 0>>, <<"B_ena", 0>> >> ELSE << >>)
       \o << <<"A_pos", 0>>, <<"A_neg", 0>>, <<"B_pos", 0>>, <<"B_neg", 0>> >>

\* StepperInit that tests stepper_B_ena_pin where stepper_B_pos_pin belongs
StepperInit_enabledByEnablePin ==
  /\ pc = "boot"
  /\ LET en   == /\ pin.A_pos < PIN_NONE /\ pin.A_neg < PIN_NONE
                 /\ pin.B_ena < PIN_NONE /\ pin.B_neg < PIN_NONE
         have == en /\ pin.A_ena < PIN_NONE /\ pin.B_ena < PIN_NONE
         pos  == RestorePos(Settings)
         s0   == [SchemeGlobals EXCEPT
                    !.TEIE = IF en THEN ClearTEIE1(TEIE) ELSE TEIE,
                    !.idle = TRUE, !.wanted_pos = 0, !.current_pos = pos]
         s1   == SelectScheme(Settings.pwm_value5, s0)
         s2   == IF ~s1.ret THEN SelectScheme(1, s1) ELSE s1
     IN /\ enabled' = en
        /\ have_enable_pins' = have
        /\ pin_writes' = InitWrites(en, have)
        /\ gpio' = ApplyWrites(gpio, InitWrites(en, have))
        /\ isr_attached' = en
        /\ idle' = TRUE
        /\ lock_when_done' = FALSE
        /\ tick_us' = ToUint16(Settings.pwm_frequency)
        /\ current_pos' = pos
        /\ wanted_pos' = s2.wanted_pos
        /\ current_phase' = s2.current_phase
        /\ current_scheme_index' = s2.current_scheme_index
        /\ current_scheme' = s2.current_scheme
        /\ Settings' = [Settings EXCEPT !.pwm_value5 = s2.pwm_value5]
        /\ TEIE' = s2.TEIE
  /\ pc' = "main"
  /\ UNCHANGED << pin, cmd, logging, episode >>

StepperInit ==
  /\ pc = "boot"
  /\ LET en   == /\ pin.A_pos < PIN_NONE /\ pin.A_neg < PIN_NONE
                 /\ pin.B_pos < PIN_NONE /\ pin.B_neg < PIN_NONE
         have == en /\ pin.A_ena < PIN_NONE /\ pin.B_ena < PIN_NONE
         pos  == RestorePos(Settings)
         s0   == [SchemeGlobals EXCEPT
                    !.TEIE = IF en THEN ClearTEIE1(TEIE) ELSE TEIE,
                    !.idle = TRUE, !.wanted_pos = 0, !.current_pos = pos]
         s1   == SelectScheme(Settings.pwm_value5, s0)
         s2   == IF ~s1.ret THEN SelectScheme(1, s1) ELSE s1
     IN /\ enabled' = en
        /\ have_enable_pins' = have
        /\ pin_writes' = InitWrites(en, have)
        /\ gpio' = ApplyWrites(gpio, InitWrites(en, have))
        /\ isr_attached' = en
        /\ idle' = TRUE
        /\ lock_when_done' = FALSE
        /\ tick_us' = ToUint16(Settings.pwm_frequency)
        /\ current_pos' = pos
        /\ wanted_pos' = s2.wanted_pos
        /\ current_phase' = s2.current_phase
        /\ current_scheme_index' = s2.current_scheme_index
        /\ current_scheme' = s2.current_scheme
        /\ Settings' = [Settings EXCEPT !.pwm_value5 = s2.pwm_value5]
        /\ TEIE' = s2.TEIE
  /\ pc' = "main"
  /\ UNCHANGED << pin, cmd, logging, episode >>

(***************************************************************************)
(* Phase sequencer: the Timer1 interrupt handler                           *)
(***************************************************************************)
\* IsrRearm that leaves TEIE1 cleared whatever idle is
IsrRearm_never ==
  TEIE' = ClearTEIE1(TEIE)

\* the tail of the handler: re-arm unless idle (TEIE1 was cleared on entry)
IsrRearm ==
  TEIE' = IF ~idle' THEN SetTEIE1(ClearTEIE1(TEIE)) ELSE ClearTEIE1(TEIE)

\* a read through current_scheme.phases outside the table may also trap:
\* the handler then never returns and the writes made so far stay
IsrTrap(ph) ==
  /\ ph < 0 \/ ph >= Len(PhaseTable(current_scheme.phases))
  /\ pc' = "crashed"
  /\ TEIE' = ClearTEIE1(TEIE)
  /\ UNCHANGED << idle, Settings, outputs, episode >>

\* IsrStep that moves the position and leaves current_phase where it was
IsrStep_keepsPhase(ph, pos) ==
  /\ current_phase' = current_phase
  /\ current_pos' = pos
  /\ \/ /\ \E st \in PhaseRead(current_scheme, ph) : StepperSet(st)
        /\ episode' = IF episode.op = "move"
                        THEN [episode EXCEPT !.phases = Append(@, ph)]
                        ELSE episode
        /\ UNCHANGED << idle, Settings, pc >>
        /\ IsrRearm
     \/ IsrTrap(ph)

\* one step to phase index ph and position pos
IsrStep(ph, pos) ==
  /\ current_phase' = ph
  /\ current_pos' = pos
  /\ \/ /\ \E st \in PhaseRead(current_scheme, ph) : StepperSet(st)
        /\ episode' = IF episode.op = "move"
                        THEN [episode EXCEPT !.phases = Append(@, ph)]
                        ELSE episode
        /\ UNCHANGED << idle, Settings, pc >>
        /\ IsrRearm
     \/ IsrTrap(ph)

\* IsrArrived with the test of lock_when_done inverted
IsrArrived_lockInverted ==
  /\ UNCHANGED << current_phase, current_pos >>
  /\ \/ /\ IF ~lock_when_done
             THEN \E st \in PhaseRead(current_scheme, current_phase) : StepperSet(st)
             ELSE StepperSet(all_off)
        /\ Settings' = SaveCurrentPos(Settings, current_pos)
        /\ idle' = TRUE
        /\ UNCHANGED << pc, episode >>
        /\ IsrRearm
     \/ /\ ~lock_when_done
        /\ IsrTrap(current_phase)

\* IsrArrived without the idle = true
IsrArrived_staysBusy ==
  /\ UNCHANGED << current_phase, current_pos >>
  /\ \/ /\ IF lock_when_done
             THEN \E st \in PhaseRead(current_scheme, current_phase) : StepperSet(st)
             ELSE StepperSet(all_off)
        /\ Settings' = SaveCurrentPos(Settings, current_pos)
        /\ idle' = idle
        /\ UNCHANGED << pc, episode >>
        /\ IsrRearm
     \/ /\ lock_when_done
        /\ IsrTrap(current_phase)

\* IsrArrived without the SaveCurrentPos()
IsrArrived_noSave ==
  /\ UNCHANGED << current_phase, current_pos >>
  /\ \/ /\ IF lock_when_done
             THEN \E st \in PhaseRead(current_scheme, current_phase) : StepperSet(st)
             ELSE StepperSet(all_off)
        /\ Settings' = Settings
        /\ idle' = TRUE
        /\ UNCHANGED << pc, episode >>
        /\ IsrRearm
     \/ /\ lock_when_done
        /\ IsrTrap(current_phase)

\* nothing left to step: lock or release the coils, save the position
IsrArrived ==
  /\ UNCHANGED << current_phase, current_pos >>
  /\ \/ /\ IF lock_when_done
             THEN \E st \in PhaseRead(current_scheme, current_phase) : StepperSet(st)
             ELSE StepperSet(all_off)
        /\ Settings' = SaveCurrentPos(Settings, current_pos)
        /\ idle' = TRUE
        /\ UNCHANGED << pc, episode >>
        /\ IsrRearm
     \/ /\ lock_when_done
        /\ IsrTrap(current_phase)

\* stepper_timer_isr with the downward wrap going to index 0
stepper_timer_isr_wrapDownToZero ==
  /\ pc # "crashed"
  /\ isr_attached /\ HasTEIE1(TEIE)
  /\ IF wanted_pos < current_pos
       THEN IsrStep(IF current_phase - 1 < 0 THEN 0 ELSE current_phase - 1,
                    ToInt16(current_pos - 1))
     ELSE IF wanted_pos > current_pos
       THEN IsrStep(IF current_phase + 1 >= current_scheme.max_phase THEN 0
                                                                     ELSE current_phase + 1,
                    ToInt16(current_pos + 1))
     ELSE IsrArrived
  /\ UNCHANGED << config, wanted_pos, lock_when_done, tick_us, current_scheme_index,
                  current_scheme, isr_attached, cmd, logging >>

\* stepper_timer_isr with the upward wrap tested by > instead of >=
stepper_timer_isr_wrapLate ==
  /\ pc # "crashed"
  /\ isr_attached /\ HasTEIE1(TEIE)
  /\ IF wanted_pos < current_pos
       THEN IsrStep(IF current_phase - 1 < 0 THEN current_scheme.max_phase - 1
                                             ELSE current_phase - 1,
                    ToInt16(current_pos - 1))
     ELSE IF wanted_pos > current_pos
       THEN IsrStep(IF current_phase + 1 > current_scheme.max_phase THEN 0
                                                                    ELSE current_phase + 1,
                    ToInt16(current_pos + 1))
     ELSE IsrArrived
  /\ UNCHANGED << config, wanted_pos, lock_when_done, tick_us, current_scheme_index,
                  current_scheme, isr_attached, cmd, logging >>

\* stepper_timer_isr that also steps down when wanted_pos == current_pos
stepper_timer_isr_stepsAtTarget ==
  /\ pc # "crashed"
  /\ isr_attached /\ HasTEIE1(TEIE)
  /\ IF wanted_pos <= current_pos
       THEN IsrStep(IF current_phase - 1 < 0 THEN current_scheme.max_phase - 1
                                             ELSE current_phase - 1,
                    ToInt16(current_pos - 1))
     ELSE IF wanted_pos > current_pos
       THEN IsrStep(IF current_phase + 1 >= current_scheme.max_phase THEN 0
                                                                     ELSE current_phase + 1,
                    ToInt16(current_pos + 1))
     ELSE IsrArrived
  /\ UNCHANGED << config, wanted_pos, lock_when_done, tick_us, current_scheme_index,
                  current_scheme, isr_attached, cmd, logging >>

stepper_timer_isr ==
  /\ pc # "crashed"
  /\ isr_attached /\ HasTEIE1(TEIE)
  /\ IF wanted_pos < current_pos
       THEN IsrStep(IF current_phase - 1 < 0 THEN current_scheme.max_phase - 1
                                             ELSE current_phase - 1,
                    ToInt16(current_pos - 1))
     ELSE IF wanted_pos > current_pos
       THEN IsrStep(IF current_phase + 1 >= current_scheme.max_phase THEN 0
                                                                     ELSE current_phase + 1,
                    ToInt16(current_pos + 1))
     ELSE IsrArrived
  /\ UNCHANGED << config, wanted_pos, lock_when_done, tick_us, current_scheme_index,
                  current_scheme, isr_attached, cmd, logging >>

(***************************************************************************)
(* Command interface                                                       *)
(***************************************************************************)
\* StepperCmndCalibrate without the SaveCurrentPos()
StepperCmndCalibrate_noSave ==
  /\ pc = "main"
  /\ TEIE' = ClearTEIE1(TEIE)
  /\ current_pos' = 0
  /\ wanted_pos' = 0
  /\ idle' = TRUE
  /\ StepperSet(all_off)
  /\ Settings' = Settings
  /\ episode' = IF logging THEN [op |-> "calibrate", phase |-> current_phase]
                          ELSE NoEpisode
  /\ UNCHANGED << config, current_phase, lock_when_done, tick_us, current_scheme_index,
                  current_scheme, isr_attached, pc, cmd, logging >>

\* StepperCmndCalibrate without the TEIE &= ~TEIE1 at its head
StepperCmndCalibrate_keepsTimer ==
  /\ pc = "main"
  /\ TEIE' = TEIE
  /\ current_pos' = 0
  /\ wanted_pos' = 0
  /\ idle' = TRUE
  /\ StepperSet(all_off)
  /\ Settings' = SaveCurrentPos(Settings, 0)
  /\ episode' = IF logging THEN [op |-> "calibrate", phase |-> current_phase]
                          ELSE NoEpisode
  /\ UNCHANGED << config, current_phase, lock_when_done, tick_us, current_scheme_index,
                  current_scheme, isr_attached, pc, cmd, logging >>

StepperCmndCalibrate ==
  /\ pc = "main"
  /\ TEIE' = ClearTEIE1(TEIE)
  /\ current_pos' = 0
  /\ wanted_pos' = 0
  /\ idle' = TRUE
  /\ StepperSet(all_off)
  /\ Settings' = SaveCurrentPos(Settings, 0)
  /\ episode' = IF logging THEN [op |-> "calibrate", phase |-> current_phase]
                          ELSE NoEpisode
  /\ UNCHANGED << config, current_phase, lock_when_done, tick_us, current_scheme_index,
                  current_scheme, isr_attached, pc, cmd, logging >>

\* the token at place i of the argument list, "absent" when strtok_r
\* returns no more tokens
Tok(args, i) == IF i <= Len(args) THEN args[i] ELSE [kind |-> "absent"]

\* (int)strtol(str, &p, 0), with GetStateNumber(str) when p == str
FlagNumber(tok) == IF tok.kind = "num" THEN tok.val ELSE tok.state

\* the argument parser of StepperCmndSpeed: what it leaves in its locals.
\*   err      - it answered D_ERROR and returned
\*   set_tick - it reached the comparison of req_tick_us with tick_us
\*   select   - it reached the call of SelectScheme(scheme_code)
ParseSpeed(args) ==
  LET t1 == Tok(args, 1)
      t2 == Tok(args, 2)
      none == [err |-> FALSE, set_tick |-> FALSE, req_tick_us |-> 0,
               select |-> FALSE, scheme_code |-> 0 - 1]
      a1 == IF t1.kind = "num"
              THEN [none EXCEPT !.set_tick = TRUE, !.req_tick_us = ToUint16(t1.val)]
              ELSE none
  IN  IF t1.kind = "absent" THEN none
      ELSE IF t1.kind = "text" THEN [none EXCEPT !.err = TRUE]
      ELSE IF t2.kind \in { "absent", "empty" } THEN a1
      ELSE IF t2.kind = "text" THEN [a1 EXCEPT !.err = TRUE]
      ELSE [a1 EXCEPT !.select = TRUE, !.scheme_code = t2.val]

\* whether StepperCmndSpeed answers D_ERROR to args
SpeedFails(args) ==
  \/ ParseSpeed(args).err
  \/ /\ ParseSpeed(args).select
     /\ ~SelectScheme(ParseSpeed(args).scheme_code, SchemeGlobals).ret

\* StepperCmndSpeed up to the point where SelectScheme clears TEIE1
StepperCmndSpeed(args) ==
  /\ pc = "main"
  /\ LET a    == ParseSpeed(args)
         tick == IF a.set_tick /\ a.req_tick_us # tick_us THEN a.req_tick_us ELSE tick_us
     IN /\ tick_us' = tick
        /\ Settings' = [Settings EXCEPT
                          !.pwm_frequency = IF tick # tick_us THEN tick ELSE @]
        /\ IF ~SpeedFails(args) /\ a.select /\ a.scheme_code # current_scheme_index
             THEN /\ pc' = "speed_select"
                  /\ cmd' = [op |-> "speed", scheme_code |-> a.scheme_code,
                             wrote |-> (tick # tick_us)]
             ELSE UNCHANGED << pc, cmd >>
  /\ UNCHANGED << config, motion_but_tick, timer, outputs, logging, episode >>

\* the rest of SelectScheme and of StepperCmndSpeed
StepperCmndSpeed_select ==
  /\ pc = "speed_select"
  /\ LET sel == SelectScheme(cmd.scheme_code, SchemeGlobals)
     IN /\ current_scheme_index' = sel.current_scheme_index
        /\ wanted_pos' = sel.wanted_pos
        /\ current_phase' = sel.current_phase
        /\ current_scheme' = sel.current_scheme
        /\ Settings' = [Settings EXCEPT !.pwm_value5 = sel.pwm_value5]
        /\ TEIE' = sel.TEIE
  /\ pc' = "main"
  /\ cmd' = NoCmd
  /\ episode' = NoEpisode
  /\ UNCHANGED << config, current_pos, idle, lock_when_done, tick_us,
                  isr_attached, outputs, logging >>

\* ParseStep with is_absolute = false as the default
ParseStep_defaultRelative(args) ==
  LET t1 == Tok(args, 1)
      t2 == Tok(args, 2)
      t3 == Tok(args, 3)
      none == [err |-> FALSE, req_pos |-> 0, is_absolute |-> FALSE,
               set_lock |-> FALSE, lock |-> FALSE]
      a1 == IF t1.kind = "num" THEN [none EXCEPT !.req_pos = ToInt16(t1.val)] ELSE none
      a2 == IF t2.kind \in { "num", "text" }
              THEN [a1 EXCEPT !.is_absolute = (FlagNumber(t2) # 0)]
              ELSE a1
  IN  IF t1.kind = "absent" THEN none
      ELSE IF t1.kind = "text" THEN [none EXCEPT !.err = TRUE]
      ELSE IF t2.kind = "absent" THEN a1
      ELSE IF t2.kind # "empty" /\ FlagNumber(t2) \notin { 0, 1 } THEN [a1 EXCEPT !.err = TRUE]
      ELSE IF t3.kind \in { "absent", "empty" } THEN a2
      ELSE IF FlagNumber(t3) \notin { 0, 1 } THEN [a2 EXCEPT !.err = TRUE]
      ELSE [a2 EXCEPT !.set_lock = TRUE, !.lock = (FlagNumber(t3) # 0)]

\* the argument parser of StepperCmndStep: what it leaves in its locals.
\*   err      - it answered D_ERROR and returned
\*   set_lock - it reached the assignment lock_when_done = (i != 0)
ParseStep(args) ==
  LET t1 == Tok(args, 1)
      t2 == Tok(args, 2)
      t3 == Tok(args, 3)
      none == [err |-> FALSE, req_pos |-> 0, is_absolute |-> TRUE,
               set_lock |-> FALSE, lock |-> FALSE]
      a1 == IF t1.kind = "num" THEN [none EXCEPT !.req_pos = ToInt16(t1.val)] ELSE none
      a2 == IF t2.kind \in { "num", "text" }
              THEN [a1 EXCEPT !.is_absolute = (FlagNumber(t2) # 0)]
              ELSE a1
  IN  IF t1.kind = "absent" THEN none
      ELSE IF t1.kind = "text" THEN [none EXCEPT !.err = TRUE]
      ELSE IF t2.kind = "absent" THEN a1
      ELSE IF t2.kind # "empty" /\ FlagNumber(t2) \notin { 0, 1 } THEN [a1 EXCEPT !.err = TRUE]
      ELSE IF t3.kind \in { "absent", "empty" } THEN a2
      ELSE IF FlagNumber(t3) \notin { 0, 1 } THEN [a2 EXCEPT !.err = TRUE]
      ELSE [a2 EXCEPT !.set_lock = TRUE, !.lock = (FlagNumber(t3) # 0)]

\* whether StepperCmndStep answers D_ERROR to args
StepFails(args) == ParseStep(args).err

\* StepperCmndStep up to the end of the argument parser, less the last
\* assignment to lock_when_done
StepperCmndStep(args) ==
  /\ pc = "main"
  /\ lock_when_done' = FALSE
  /\ IF StepFails(args)
       THEN UNCHANGED << pc, cmd >>
       ELSE /\ pc' = IF ParseStep(args).set_lock THEN "step_lock" ELSE "step_move"
            /\ cmd' = [op |-> "step", req_pos |-> ParseStep(args).req_pos,
                       is_absolute |-> ParseStep(args).is_absolute,
                       lock |-> ParseStep(args).lock, wrote |-> TRUE]
  /\ episode' = IF logging /\ ~StepFails(args)
                  THEN [op |-> "step", args |-> args, was_lock |-> lock_when_done,
                        prior |-> Before(episode)]
                  ELSE episode
  /\ UNCHANGED << config, current_pos, wanted_pos, current_phase, current_scheme_index,
                  current_scheme, idle, tick_us, Settings, timer, outputs, logging >>

\* lock_when_done = (i != 0)
StepperCmndStep_lock ==
  /\ pc = "step_lock"
  /\ lock_when_done' = cmd.lock
  /\ pc' = "step_move"
  /\ cmd' = cmd
  /\ UNCHANGED << config, current_pos, wanted_pos, current_phase, current_scheme_index,
                  current_scheme, idle, tick_us, Settings, timer, outputs, logging,
                  episode >>

\* StepperCmndStep_move keeping the old target while a motion is in progress
StepperCmndStep_move_keepsTarget ==
  /\ pc = "step_move"
  /\ wanted_pos' = IF ~idle THEN wanted_pos
                   ELSE IF cmd.is_absolute THEN cmd.req_pos
                   ELSE ToInt16(current_pos + cmd.req_pos)
  /\ idle' = FALSE
  /\ TEIE' = SetTEIE1(ClearTEIE1(TEIE))
  /\ pc' = "main"
  /\ cmd' = NoCmd
  /\ episode' = IF logging
                  THEN [op |-> "move", from_pos |-> current_pos,
                        from_phase |-> current_phase, from_idle |-> idle,
                        is_absolute |-> cmd.is_absolute, req_pos |-> cmd.req_pos,
                        phases |-> << >>, old_wanted |-> wanted_pos,
                        args |-> episode.args, was_lock |-> episode.was_lock,
                        prior |-> episode.prior]
                  ELSE NoEpisode
  /\ UNCHANGED << config, current_pos, current_phase, current_scheme_index,
                  current_scheme, lock_when_done, tick_us, Settings, isr_attached,
                  outputs, logging >>

\* StepperCmndStep_move with the relative target counted from wanted_pos
StepperCmndStep_move_fromWanted ==
  /\ pc = "step_move"
  /\ wanted_pos' = IF cmd.is_absolute THEN cmd.req_pos
                                      ELSE ToInt16(wanted_pos + cmd.req_pos)
  /\ idle' = FALSE
  /\ TEIE' = SetTEIE1(ClearTEIE1(TEIE))
  /\ pc' = "main"
  /\ cmd' = NoCmd
  /\ episode' = IF logging
                  THEN [op |-> "move", from_pos |-> current_pos,
                        from_phase |-> current_phase, from_idle |-> idle,
                        is_absolute |-> cmd.is_absolute, req_pos |-> cmd.req_pos,
                        phases |-> << >>, old_wanted |-> wanted_pos,
                        args |-> episode.args, was_lock |-> episode.was_lock,
                        prior |-> episode.prior]
                  ELSE NoEpisode
  /\ UNCHANGED << config, current_pos, current_phase, current_scheme_index,
                  current_scheme, lock_when_done, tick_us, Settings, isr_attached,
                  outputs, logging >>

\* StepperCmndStep_move without the idle = false
StepperCmndStep_move_staysIdle ==
  /\ pc = "step_move"
  /\ wanted_pos' = IF cmd.is_absolute THEN cmd.req_pos
                                      ELSE ToInt16(current_pos + cmd.req_pos)
  /\ idle' = idle
  /\ TEIE' = SetTEIE1(ClearTEIE1(TEIE))
  /\ pc' = "main"
  /\ cmd' = NoCmd
  /\ episode' = IF logging
                  THEN [op |-> "move", from_pos |-> current_pos,
                        from_phase |-> current_phase, from_idle |-> idle,
                        is_absolute |-> cmd.is_absolute, req_pos |-> cmd.req_pos,
                        phases |-> << >>, old_wanted |-> wanted_pos,
                        args |-> episode.args, was_lock |-> episode.was_lock,
                        prior |-> episode.prior]
                  ELSE NoEpisode
  /\ UNCHANGED << config, current_pos, current_phase, current_scheme_index,
                  current_scheme, lock_when_done, tick_us, Settings, isr_attached,
                  outputs, logging >>

\* "process the arguments": the part of StepperCmndStep run with TEIE1 cleared
StepperCmndStep_move ==
  /\ pc = "step_move"
  /\ wanted_pos' = IF cmd.is_absolute THEN cmd.req_pos
                                      ELSE ToInt16(current_pos + cmd.req_pos)
  /\ idle' = FALSE
  /\ TEIE' = SetTEIE1(ClearTEIE1(TEIE))
  /\ pc' = "main"
  /\ cmd' = NoCmd
  /\ episode' = IF logging
                  THEN [op |-> "move", from_pos |-> current_pos,
                        from_phase |-> current_phase, from_idle |-> idle,
                        is_absolute |-> cmd.is_absolute, req_pos |-> cmd.req_pos,
                        phases |-> << >>, old_wanted |-> wanted_pos,
                        args |-> episode.args, was_lock |-> episode.was_lock,
                        prior |-> episode.prior]
                  ELSE NoEpisode
  /\ UNCHANGED << config, current_pos, current_phase, current_scheme_index,
                  current_scheme, lock_when_done, tick_us, Settings, isr_attached,
                  outputs, logging >>

\* Xdrv23(FUNC_COMMAND) while the module is disabled: no handler runs
CommandIgnored ==
  /\ pc = "main"
  /\ ~enabled
  /\ UNCHANGED vars

(***************************************************************************)
(* The commands the environment issues                                     *)
(***************************************************************************)
\* the position a Move ends at lies in the window w
TargetIn(args, w) ==
  \/ StepFails(args)
  \/ IF ParseStep(args).is_absolute
       THEN ParseStep(args).req_pos \in w
       ELSE /\ current_pos + ParseStep(args).req_pos \in w
            /\ wanted_pos + ParseStep(args).req_pos \in w

\* Xdrv23(FUNC_COMMAND) while the module is enabled: DecodeCommand
DecodeCommand ==
  /\ enabled
  /\ \/ StepperCmndCalibrate
     \/ \E args \in SpeedArgs : StepperCmndSpeed(args)
     \/ \E args \in StepArgs : TargetIn(args, Positions) /\ StepperCmndStep(args)

Xdrv23 ==
  \/ StepperInit
  \/ DecodeCommand
  \/ CommandIgnored

Next ==
  \/ Xdrv23
  \/ StepperCmndSpeed_select
  \/ StepperCmndStep_lock
  \/ StepperCmndStep_move
  \/ stepper_timer_isr

Spec == Init /\ [][Next]_vars

(***************************************************************************)
(* Logged runs: one command at a time, each issued while idle, with the    *)
(* phase indices of every Move recorded in episode                         *)
(***************************************************************************)
LogStepArgs ==
  { << >>, <<Num(5)>>, <<Num(6), Num(0)>>, <<Num(6), Num(0), Num(1)>>,
    <<EmptyTok, EmptyTok, Num(1)>>, <<EmptyTok, EmptyTok, EmptyTok>>,
    <<Num(0), Num(1)>> }

LogSpeedArgs == { <<EmptyTok, Num(c)>> : c \in 0..3 } \cup { <<Num(500)>> }

InitLog ==
  /\ pin \in { c \in PinConfigs : c.A_neg < PIN_NONE }
  /\ enabled = FALSE
  /\ have_enable_pins = FALSE
  /\ idle = FALSE
  /\ current_phase = 0
  /\ wanted_pos = 0
  /\ lock_when_done = FALSE
  /\ tick_us = 0
  /\ current_scheme_index = 0
  /\ current_scheme = NullScheme
  /\ current_pos = 0
  /\ \E c \in StoredScheme, t \in StoredTick :
       Settings = [pwm_value0 |-> 0, pwm_value1 |-> 0,
                   pwm_value5 |-> c, pwm_frequency |-> t]
  /\ TEIE = 0
  /\ isr_attached = FALSE
  /\ gpio = [p \in PinNames |-> 0 - 1]
  /\ pin_writes = << >>
  /\ pc = "boot"
  /\ cmd = NoCmd
  /\ logging = TRUE
  /\ episode = NoEpisode

DecodeCommandLog ==
  /\ enabled
  /\ idle
  /\ \/ StepperCmndCalibrate
     \/ \E args \in LogSpeedArgs : StepperCmndSpeed(args)
     \/ \E args \in LogStepArgs : TargetIn(args, LogPositions) /\ StepperCmndStep(args)

NextLog ==
  \/ StepperInit
  \/ DecodeCommandLog
  \/ StepperCmndSpeed_select
  \/ StepperCmndStep_lock
  \/ StepperCmndStep_move
  \/ stepper_timer_isr

SpecLog == InitLog /\ [][NextLog]_vars

(***************************************************************************)
(* Logged runs with commands issued at any time, also while stepping       *)
(***************************************************************************)
BusyStepArgs == { << >>, <<Num(2), Num(1), Num(1)>>, <<Num(1), Num(0)>> }

BusySpeedArgs == { <<EmptyTok, Num(1)>>, <<EmptyTok, Num(2)>> }

DecodeCommandBusy ==
  /\ enabled
  /\ \/ StepperCmndCalibrate
     \/ \E args \in BusySpeedArgs : StepperCmndSpeed(args)
     \/ \E args \in BusyStepArgs : TargetIn(args, BusyPositions) /\ StepperCmndStep(args)

NextBusy ==
  \/ StepperInit
  \/ DecodeCommandBusy
  \/ StepperCmndSpeed_select
  \/ StepperCmndStep_lock
  \/ StepperCmndStep_move
  \/ stepper_timer_isr

SpecBusy == InitLog /\ [][NextBusy]_vars

(***************************************************************************)
(* Logged runs of the command handlers over the whole range of the numbers *)
(* strtol hands them, up to the first tick                                 *)
(***************************************************************************)
\* ESP8266_CLOCK / 1000000
TicksPerMicrosecond == 80

\* the width of the Timer1 load register
T1L_BITS == 23

\* what T1L holds after T1L = (ESP8266_CLOCK / 1000000) * tick_us
T1Load(t) == (TicksPerMicrosecond * t) % (2 ^ T1L_BITS)

\* tick periods asked for: inside uint16_t, its last value, and beyond
TickRequests == { 500, 65535, 65536, 70000 }

WideSpeedArgs == { <<Num(t)>> : t \in TickRequests }

\* positions and offsets asked for: inside int16_t, its ends, and beyond
WideStepArgs ==
  { <<Num(100)>>, <<Num(32767)>>, <<Num(40000)>>, <<Num(0 - 40000)>>,
    <<Num(1), Num(0)>>, <<Num(0 - 1), Num(0)>>, <<Num(40000), Num(0)>>,
    <<Num(100), Num(0), Num(1)>> }

\* positions found in pwm_value[0..1]: 0, 32767 and -32768
WideStoredPos == { <<0, 0>>, <<255, 127>>, <<0, 128>> }

InitWide ==
  /\ pin \in { c \in PinConfigs : c.A_neg < PIN_NONE }
  /\ enabled = FALSE
  /\ have_enable_pins = FALSE
  /\ idle = FALSE
  /\ current_phase = 0
  /\ wanted_pos = 0
  /\ lock_when_done = FALSE
  /\ tick_us = 0
  /\ current_scheme_index = 0
  /\ current_scheme = NullScheme
  /\ current_pos = 0
  /\ \E p \in WideStoredPos, c \in StoredScheme, t \in StoredTick :
       Settings = [pwm_value0 |-> p[1], pwm_value1 |-> p[2],
                   pwm_value5 |-> c, pwm_frequency |-> t]
  /\ TEIE = 0
  /\ isr_attached = FALSE
  /\ gpio = [p \in PinNames |-> 0 - 1]
  /\ pin_writes = << >>
  /\ pc = "boot"
  /\ cmd = NoCmd
  /\ logging = TRUE
  /\ episode = NoEpisode

DecodeCommandWide ==
  /\ enabled
  /\ \/ \E args \in WideSpeedArgs : StepperCmndSpeed(args)
     \/ \E args \in WideStepArgs : StepperCmndStep(args)

NextWide ==
  \/ StepperInit
  \/ DecodeCommandWide
  \/ StepperCmndStep_lock
  \/ StepperCmndStep_move

SpecWide == InitWide /\ [][NextWide]_vars

(***************************************************************************)
(* Startups after a run that saved the position p, for every p of int16_t  *)
(***************************************************************************)
RoundPositions == (0 - 32768)..32767

InitRound ==
  /\ pin = [A_ena |-> 4, A_pos |-> 12, A_neg |-> 13,
            B_ena |-> 5, B_pos |-> 14, B_neg |-> 15]
  /\ enabled = FALSE
  /\ have_enable_pins = FALSE
  /\ idle = FALSE
  /\ current_phase = 0
  /\ wanted_pos = 0
  /\ lock_when_done = FALSE
  /\ tick_us = 0
  /\ current_scheme_index = 0
  /\ current_scheme = NullScheme
  /\ current_pos = 0
  /\ \E p \in RoundPositions :
       /\ Settings = SaveCurrentPos([pwm_value0 |-> 0, pwm_value1 |-> 0,
                                     pwm_value5 |-> 1, pwm_frequency |-> 2000], p)
       /\ episode = [op |-> "saved", pos |-> p]
  /\ TEIE = 0
  /\ isr_attached = FALSE
  /\ gpio = [p \in PinNames |-> 0 - 1]
  /\ pin_writes = << >>
  /\ pc = "boot"
  /\ cmd = NoCmd
  /\ logging = TRUE

NextRound == StepperInit

SpecRound == InitRound /\ [][NextRound]_vars

(***************************************************************************)
(* Properties                                                              *)
(***************************************************************************)
\* the tick source is armed: the handler is attached and TEIE1 is set
Armed == isr_attached /\ HasTEIE1(TEIE)

\* a command handler has assigned a variable the sequencer reads and has
\* not returned yet
MidCommand == pc \in { "speed_select", "step_lock", "step_move" } /\ cmd.wrote

\* the six outputs show the phase st (the enable lines only when wired)
Shows(g, st) ==
  /\ g.A_pos = st.A_pos /\ g.A_neg = st.A_neg
  /\ g.B_pos = st.B_pos /\ g.B_neg = st.B_neg
  /\ have_enable_pins => g.A_ena = st.A_ena /\ g.B_ena = st.B_ena

\* C1: after startup, whatever scheme index was stored, and after any commands
\* and ticks, current_phase is an index into the active scheme's table:
\* 0 <= current_phase < max_phase.
C1_PhaseIndexValid ==
  pc # "boot" => current_phase >= 0 /\ current_phase < current_scheme.max_phase

\* C2: no tick runs between the first and the last assignment a command
\* makes to the variables the sequencer reads.
C2_NoTickInsideCommand == [][~(MidCommand /\ stepper_timer_isr)]_vars

\* C3: once a command has returned with idle false, the tick source is armed
\* again, so that the motion runs to its arrival.
C3_ArmedWhileStepping == (pc = "main" /\ ~idle) => Armed

\* C4: while idle the tick source is not armed.
C4_IdleNotArmed == idle => ~Armed

\* an arrival at position 1 left the module idle
C4_Witness ==
  /\ enabled /\ idle /\ pc = "main"
  /\ current_pos = 1 /\ Settings.pwm_value0 = 1

\* C5: a Move answered with an error leaves every MotionState field as it was.
C5_FailedMoveChangesNothing ==
  [][(\E args \in StepArgs : StepFails(args) /\ StepperCmndStep(args))
       => UNCHANGED motion]_vars

\* C6: a Configure answered with an error leaves tick_us, the stored tick
\* period, the scheme, current_phase and all other MotionState fields as they
\* were.
C6_FailedConfigureChangesNothing ==
  [][(\E args \in SpeedArgs : SpeedFails(args) /\ StepperCmndSpeed(args))
       => UNCHANGED << motion, Settings >>]_vars

\* C7: while the direction pins are not all configured, no command changes a
\* MotionState field, no output is written, the handler is not attached, and
\* neither startup nor anything after it changes TEIE.
C7_DisabledIsInert ==
  [][/\ (pc # "boot" /\ ~enabled) => UNCHANGED motion
     /\ ~enabled' => /\ TEIE' = TEIE
                     /\ gpio' = gpio
                     /\ ~isr_attached']_vars

\* C8: with scheme index 3 selected, the active table is half_step_inhibit
\* when the enable pins are wired and half_step when they are not.
C8_InhibitNeedsEnablePins ==
  (pc # "boot" /\ current_scheme_index = 3) =>
     current_scheme = [phases |-> IF have_enable_pins THEN "half_step_inhibit"
                                                      ELSE "half_step",
                       max_phase |-> 8]

\* the active scheme is one of the four of control_schemes
BuiltIn(scheme) == \E n \in 0..(SCHEMES_MAX - 1) : scheme = control_schemes[n]

\* C9: with one of the four built-in schemes active, a tick taken with
\* wanted_pos > current_pos moves current_phase to (current_phase + 1) mod N
\* and current_pos up by one, a tick taken with wanted_pos < current_pos moves
\* current_phase to (current_phase - 1) mod N and current_pos down by one, and
\* the outputs then show the phase of the new index.
C9_TickDirection ==
  [][(stepper_timer_isr /\ BuiltIn(current_scheme)) =>
       /\ wanted_pos > current_pos =>
            /\ current_phase' = (current_phase + 1) % current_scheme.max_phase
            /\ current_pos' = current_pos + 1
            /\ Shows(gpio', PhaseTable(current_scheme.phases)[current_phase' + 1])
       /\ wanted_pos < current_pos =>
            /\ current_phase' = (current_phase - 1) % current_scheme.max_phase
            /\ current_pos' = current_pos - 1
            /\ Shows(gpio', PhaseTable(current_scheme.phases)[current_phase' + 1])]_vars

\* a tick has just wrapped the index of an 8 phase scheme downwards, from 0 to 7
C9_Witness ==
  /\ episode.op = "move" /\ episode.from_phase = 0 /\ episode.phases = << 7 >>
  /\ current_scheme = control_schemes[3]
  /\ current_phase = 7 /\ wanted_pos < current_pos

\* the run of C10: full-step, a Move relative +6 issued while idle at
\* position 0 and phase index 0, and no scheme change or Calibrate since
MoveSix ==
  /\ episode.op = "move"
  /\ episode.from_idle /\ episode.from_pos = 0 /\ episode.from_phase = 0
  /\ ~episode.is_absolute /\ episode.req_pos = 6
  /\ current_scheme_index = 1 /\ current_scheme = control_schemes[1]

\* C10: in that run the ticks step to the phase indices 1,2,3,0,1,2 in this
\* order, one position each, and the run ends idle at position 6 with phase
\* index 2.
C10_MoveSixPhases ==
  MoveSix =>
    /\ Len(episode.phases) <= 6
    /\ episode.phases = SubSeq(<< 1, 2, 3, 0, 1, 2 >>, 1, Len(episode.phases))
    /\ current_pos = Len(episode.phases)
    /\ ~idle => wanted_pos = 6
    /\ idle => /\ episode.phases = << 1, 2, 3, 0, 1, 2 >>
               /\ current_pos = 6
               /\ current_phase = 2

\* the run has ended
C10_Witness ==
  MoveSix /\ idle /\ pc = "main" /\ current_pos = 6 /\ Len(episode.phases) = 6

\* the run of C11: Calibrate, a Move to absolute 5 run to its arrival, a Move
\* to absolute 0 run to its arrival, with one of the four schemes active and
\* no scheme change in between
ThereAndBack ==
  /\ episode.op = "move" /\ episode.is_absolute /\ episode.req_pos = 0
  /\ episode.prior.op = "move" /\ episode.prior.after_calibrate
  /\ episode.prior.is_absolute /\ episode.prior.req_pos = 5
  /\ episode.prior.arrived
  /\ idle /\ pc = "main"
  /\ BuiltIn(current_scheme)

\* C11 as stated: the run ends at position 0 after 5 and 5 phase transitions,
\* and it ends on the phase index it started from only if 10 mod N = 0.
C11_BackOnlyIfTenModN ==
  ThereAndBack =>
    /\ current_pos = 0
    /\ episode.prior.steps = 5 /\ Len(episode.phases) = 5
    /\ current_phase = episode.prior.from_phase => 10 % current_scheme.max_phase = 0

\* C11 amended: the run ends at position 0 after 5 and 5 phase transitions,
\* and it ends on the phase index it started from, for every N: the five
\* steps down undo the five steps up.
C11_BackOnStartPhase ==
  ThereAndBack =>
    /\ current_pos = 0
    /\ episode.prior.steps = 5 /\ Len(episode.phases) = 5
    /\ current_phase = episode.prior.from_phase

\* the run has ended, and it had started on a phase index other than 0
C11_Witness ==
  /\ ThereAndBack
  /\ current_scheme = control_schemes[1] /\ current_phase = 2
  /\ Len(episode.phases) = 5 /\ current_pos = 0

\* the run of C12: the last command was a Move, issued while idle, to the
\* absolute position the motor was at, with one of the four schemes active
MoveToSamePlace ==
  /\ episode.op = "move" /\ episode.from_idle
  /\ episode.is_absolute /\ episode.req_pos = episode.from_pos
  /\ BuiltIn(current_scheme)

\* C12: such a Move arms the tick source; the next tick sets idle = true and
\* changes neither current_pos nor current_phase; the tick source is then
\* disarmed, so that no second tick follows.
C12_SamePlaceOneTick ==
  [][/\ MoveToSamePlace' =>
          /\ episode'.phases = << >>
          /\ current_pos' = episode'.from_pos
          /\ current_phase' = episode'.from_phase
          /\ idle' <=> ~Armed'
     /\ (MoveToSamePlace /\ stepper_timer_isr) =>
          /\ ~idle /\ idle'
          /\ UNCHANGED << current_pos, current_phase >>]_vars

\* the one tick has run: idle again at position 5 after a Move to absolute 5
C12_Witness ==
  /\ MoveToSamePlace /\ episode.from_pos = 5
  /\ idle /\ pc = "main" /\ current_pos = 5 /\ ~Armed

\* C13: with one of the four schemes active, a tick taken with
\* wanted_pos = current_pos leaves the outputs showing the phase
\* current_scheme.phases[current_phase] when lock_when_done is true and all_off
\* when it is false; a Move that changes only the lock flag ends this way too.
C13_ArrivalLocksOrReleases ==
  [][(stepper_timer_isr /\ wanted_pos = current_pos /\ BuiltIn(current_scheme)) =>
       /\ lock_when_done =>
            Shows(gpio', PhaseTable(current_scheme.phases)[current_phase + 1])
       /\ ~lock_when_done => Shows(gpio', all_off)
       /\ UNCHANGED << current_pos, current_phase >>]_vars

\* a Move that only set the lock flag has arrived: the coils of full_step's
\* phase 0 are energized at position 0
C13_Witness ==
  /\ idle /\ pc = "main" /\ lock_when_done
  /\ current_scheme = control_schemes[1] /\ current_phase = 0
  /\ current_pos = 0 /\ wanted_pos = 0
  /\ gpio.A_pos = 1 /\ gpio.B_neg = 1 /\ gpio.A_neg = 0 /\ gpio.B_pos = 0

\* C14: Calibrate, in whatever state it is issued, leaves current_pos = 0,
\* wanted_pos = 0, idle = true, the outputs showing all_off, the saved
\* position 0 and the tick source disarmed; ticks run only while idle is
\* false, and only a Move makes idle false, so that no tick changes the
\* position or the outputs before the next Move.
C14_CalibrateZeroes ==
  [][/\ StepperCmndCalibrate =>
          /\ current_pos' = 0 /\ wanted_pos' = 0 /\ idle'
          /\ Shows(gpio', all_off)
          /\ RestorePos(Settings') = 0
          /\ ~Armed'
     /\ stepper_timer_isr => ~idle
     /\ (idle /\ ~idle') => StepperCmndStep_move]_vars

\* Calibrate has run after a locking Move had stepped away from the stored
\* position -1: position 0, the phase index as the Move left it
C14_Witness ==
  /\ idle /\ pc = "main" /\ ~Armed
  /\ current_pos = 0 /\ wanted_pos = 0
  /\ Settings.pwm_value0 = 0 /\ Settings.pwm_value1 = 0
  /\ gpio.A_pos = 0 /\ gpio.A_neg = 0 /\ gpio.B_pos = 0 /\ gpio.B_neg = 0
  /\ current_phase > 0 /\ lock_when_done

\* Configure with args succeeds and selects a scheme other than the active one
SelectsAnother(args) ==
  /\ ~SpeedFails(args)
  /\ ParseSpeed(args).select
  /\ control_schemes[ParseSpeed(args).scheme_code] # current_scheme

\* C15: with one of the four schemes active, a Configure goes on to reset
\* current_phase to 0 exactly when it succeeds and selects a scheme other than
\* the active one; otherwise (the active scheme selected again, only the tick
\* period given, or an error) current_phase is left as it is; current_pos is
\* left as it is in every case.
C15_PhaseResetOnSchemeChange ==
  [][/\ \A args \in SpeedArgs :
          (StepperCmndSpeed(args) /\ BuiltIn(current_scheme)) =>
             /\ UNCHANGED << current_pos, current_phase >>
             /\ pc' = "speed_select" <=> SelectsAnother(args)
     /\ StepperCmndSpeed_select =>
          /\ current_phase' = 0
          /\ current_pos' = current_pos]_vars

\* a scheme change made at position 6, where a Move of six steps had ended,
\* has reset the phase index
C15_Witness ==
  /\ pc = "main" /\ idle /\ episode = NoEpisode
  /\ current_pos = 6 /\ current_phase = 0
  /\ current_scheme = control_schemes[2]

\* C16: a Move that succeeds leaves current_pos, current_phase, the active
\* scheme and tick_us as they are in each of its steps; its last step sets
\* wanted_pos to the position given (absolute) or to current_pos plus the
\* offset given (relative), leaves lock_when_done at the flag given, makes
\* idle false and arms the tick source.
C16_MoveSetsTarget ==
  [][/\ (pc' \in { "step_lock", "step_move" } /\ pc' # pc) =>
          UNCHANGED << current_pos, current_phase, current_scheme_index,
                       current_scheme, tick_us, wanted_pos, idle >>
     /\ StepperCmndStep_move =>
          /\ wanted_pos' = IF cmd.is_absolute THEN cmd.req_pos
                                              ELSE current_pos + cmd.req_pos
          /\ lock_when_done' = cmd.lock
          /\ ~idle' /\ Armed'
          /\ UNCHANGED << current_pos, current_phase, current_scheme_index,
                          current_scheme, tick_us >>]_vars

\* a locking Move to position 1 has just returned, the motor at position 0
C16_Witness ==
  /\ pc = "main" /\ ~idle /\ Armed
  /\ wanted_pos = 1 /\ current_pos = 0 /\ lock_when_done

\* the position the Move of episode ep asked for
Target(ep) == IF ep.is_absolute THEN ep.req_pos ELSE ep.from_pos + ep.req_pos

\* the last command was a Move issued while stepping, with one of the four
\* schemes active
Redirected ==
  /\ episode.op = "move" /\ ~episode.from_idle
  /\ BuiltIn(current_scheme)

\* C17: a Move issued while stepping replaces wanted_pos and leaves
\* current_pos, current_phase and idle as they are; from its return on
\* wanted_pos is the new target, and every tick steps current_pos by one
\* towards it (or, at the target, ends the motion): none steps towards the
\* old target.
C17_NewTargetAtOnce ==
  [][/\ (StepperCmndStep_move /\ ~idle) =>
          UNCHANGED << current_pos, current_phase, idle >>
     /\ Redirected' => wanted_pos' = Target(episode')
     /\ (Redirected /\ stepper_timer_isr) =>
          /\ wanted_pos > current_pos => current_pos' = current_pos + 1
          /\ wanted_pos < current_pos => current_pos' = current_pos - 1
          /\ wanted_pos = current_pos => (current_pos' = current_pos /\ idle')]_vars

\* a Move issued on the way up to a higher target has turned the motor round:
\* the first tick after it has stepped down
C17_Witness ==
  /\ Redirected
  /\ episode.old_wanted > episode.from_pos
  /\ wanted_pos < episode.from_pos
  /\ Len(episode.phases) = 1
  /\ current_pos = episode.from_pos - 1

\* C18: the second argument of a Move is is_relative: after a Move with the
\* numbers p and f as its first two arguments, wanted_pos is the position at
\* the time of the command plus p when f = 1 and p itself when f = 0; so
\* after "step 0,1" wanted_pos is the position at the time of the command.
C18_FlagIsRelative ==
  (/\ episode.op = "move"
   /\ Len(episode.args) >= 2
   /\ episode.args[1].kind = "num" /\ episode.args[2].kind = "num") =>
     wanted_pos = IF episode.args[2].val = 1
                    THEN episode.from_pos + episode.args[1].val
                    ELSE episode.args[1].val

\* every argument of the list is omitted or empty
NoArgs(args) == \A i \in 1..Len(args) : args[i] = EmptyTok

\* C19: after a Move with no arguments, or with every argument empty,
\* wanted_pos is 0 and lock_when_done is false, whatever the position and the
\* lock flag were.
C19_NoArgsGoesHomeUnlocked ==
  (episode.op = "move" /\ NoArgs(episode.args)) =>
     /\ wanted_pos = 0
     /\ ~lock_when_done

\* a Move without arguments was issued at position 6 with the lock flag set
C19_Witness ==
  /\ episode.op = "move" /\ episode.args = << >>
  /\ episode.from_pos = 6 /\ episode.was_lock
  /\ wanted_pos = 0 /\ ~lock_when_done

DirPins == { "A_pos", "A_neg", "B_pos", "B_neg" }

EnaPins == { "A_ena", "B_ena" }

\* the places in the write sequence ws where a pin of names is written
WritesOf(ws, names) == { i \in 1..Len(ws) : ws[i][1] \in names }

\* each direction line is written once; an enable line written to 0 comes
\* before every direction line, an enable line written to 1 after every one
OrderedWrites(ws) ==
  /\ \A d \in DirPins : Cardinality(WritesOf(ws, { d })) = 1
  /\ \A i \in WritesOf(ws, EnaPins), j \in WritesOf(ws, DirPins) :
       IF ws[i][2] = 0 THEN i < j ELSE j < i

\* the writes ws carry the values of the phase st: each direction line, and
\* with enable lines present each enable line, is written once with its value
WritesPhase(ws, st) ==
  /\ \A d \in DirPins : \E i \in 1..Len(ws) : ws[i] = << d, st[d] >>
  /\ have_enable_pins =>
       \A e \in EnaPins : /\ Cardinality(WritesOf(ws, { e })) = 1
                          /\ \E i \in 1..Len(ws) : ws[i] = << e, st[e] >>

\* the phase a tick applies when one of the four schemes is active
TickPhase ==
  IF wanted_pos # current_pos
    THEN PhaseTable(current_scheme.phases)[current_phase' + 1]
  ELSE IF lock_when_done
    THEN PhaseTable(current_scheme.phases)[current_phase + 1]
  ELSE all_off

\* C20: the pin writes of every StepperSet are ordered: an enable line going
\* to 0 is written before any direction line, an enable line going to 1 after
\* all four direction lines; the four direction lines are written every time
\* with the values of the phase applied; without enable lines no enable line
\* is written.
C20_EnableWritesAroundDirection ==
  [][/\ pin_writes' # << >> => OrderedWrites(pin_writes')
     /\ ~have_enable_pins' => WritesOf(pin_writes', EnaPins) = { }
     /\ (stepper_timer_isr /\ BuiltIn(current_scheme)) =>
          WritesPhase(pin_writes', TickPhase)
     /\ StepperCmndCalibrate => WritesPhase(pin_writes', all_off)]_vars

\* a tick has applied a phase of half_step_inhibit that inhibits coil B:
\* B_ena was written first, A_ena last
C20_Witness ==
  /\ have_enable_pins /\ current_scheme = control_schemes[3] /\ current_phase = 1
  /\ Len(pin_writes) = 6
  /\ pin_writes[1] = << "B_ena", 0 >>
  /\ pin_writes[6] = << "A_ena", 1 >>

(***************************************************************************)
(* Runs in which the Timer1 interrupt is served: the hardware raises it    *)
(* whenever TEIE1 is set and the handler is attached, whatever the main    *)
(* context is doing, so only the handler is given fairness                 *)
(***************************************************************************)
SpecFair == Init /\ [][Next]_vars /\ WF_vars(stepper_timer_isr)

C22_ConfigureRejectsUnfit ==
  [][\A args \in WideSpeedArgs :
       (StepperCmndSpeed(args) /\ ~SpeedFails(args)) =>
          /\ tick_us' = args[1].val
          /\ Settings'.pwm_frequency = args[1].val
          /\ T1Load(tick_us') = TicksPerMicrosecond * args[1].val]_vars

\* C29: the target of an accepted Move is the number asked for: the
\* position itself when absolute, the position at the command plus the
\* offset, as integers, when relative (no wrap, no truncation to 16 bits).
C29_TargetDoesNotWrap ==
  (episode.op = "move" /\ episode.args # << >> /\ episode.args[1].kind = "num") =>
     wanted_pos = IF episode.is_absolute
                    THEN episode.args[1].val
                    ELSE episode.from_pos + episode.args[1].val

\* C23: startup restores a stored scheme index in 0..3 and the stored tick
\* period; any other stored index selects half_step (N = 8); afterwards idle
\* holds, wanted_pos is 0 or current_pos, lock_when_done is false and the
\* active scheme has a phase table that is not empty.
C23_StartupDefaults ==
  [][StepperInit =>
       /\ Settings.pwm_value5 \in 0..(SCHEMES_MAX - 1) =>
            current_scheme' = control_schemes[Settings.pwm_value5]
       /\ Settings.pwm_value5 \notin 0..(SCHEMES_MAX - 1) =>
            current_scheme' = control_schemes[2]
       /\ tick_us' = Settings.pwm_frequency
       /\ idle' /\ wanted_pos' \in { 0, current_pos' } /\ ~lock_when_done'
       /\ current_scheme'.max_phase > 0
       /\ PhaseTable(current_scheme'.phases) # << >>]_vars

\* C24: whenever idle is true the position held in Settings.pwm_value[0..1]
\* is current_pos: after startup, after every arrival, after Calibrate and
\* after a Configure issued while idle.
C24_IdleMeansSaved ==
  idle => RestorePos(Settings) = current_pos

\* a locking Move has arrived at position 1, which was never stored before:
\* the tick that set idle also wrote the bytes 1 and 0
C24_Witness ==
  /\ idle /\ pc = "main" /\ lock_when_done /\ BuiltIn(current_scheme)
  /\ current_pos = 1 /\ wanted_pos = 1
  /\ Settings.pwm_value0 = 1 /\ Settings.pwm_value1 = 0

\* C25: saving the position p as the two bytes pwm_value[0] (low) and
\* pwm_value[1] (high) and restoring it at startup gives p back, for every
\* p of int16_t, the negative ones and both ends included.
C25_SaveRestoreRoundTrip ==
  episode.op = "saved" =>
     /\ RestorePos(SaveCurrentPos(Settings, episode.pos)) = episode.pos
     /\ pc = "main" => current_pos = episode.pos

\* StepperInit has restored the position -32768 from the bytes 0 and 128
C25_Witness ==
  /\ pc = "main" /\ episode.op = "saved" /\ episode.pos = 0 - 32768
  /\ Settings.pwm_value0 = 0 /\ Settings.pwm_value1 = 128
  /\ current_pos = 0 - 32768

\* C26: after startup enabled is true exactly when the four direction pins
\* A_pos, A_neg, B_pos, B_neg are configured (not 99), whatever the enable
\* pins are; have_enable_pins is true exactly when enabled is and both
\* A_ena and B_ena are configured.
C26_EnabledFromPins ==
  pc # "boot" =>
     /\ enabled <=> (\A p \in DirPins : pin[p] # PIN_NONE)
     /\ have_enable_pins <=> (enabled /\ \A p \in EnaPins : pin[p] # PIN_NONE)

\* the module runs with B_ena not configured: enabled, without enable pins
C26_Witness ==
  /\ pc = "main" /\ pin.B_ena = PIN_NONE /\ pin.A_ena # PIN_NONE
  /\ enabled /\ ~have_enable_pins /\ ~idle

\* current_phase - current_pos modulo the length of the scheme s
PhaseOffset(phase, pos, s) == (phase - pos) % s.max_phase

\* C27: with one of the four schemes active, every tick changes current_pos
\* and current_phase together (both up by one, both down by one modulo N, or
\* neither), and every step other than startup, Calibrate and a scheme change
\* leaves (current_phase - current_pos) mod N as it was.
C27_PhaseFollowsPosition ==
  [][BuiltIn(current_scheme) =>
       /\ stepper_timer_isr =>
            \E d \in { 0 - 1, 0, 1 } :
               /\ current_pos' = current_pos + d
               /\ current_phase' = (current_phase + d) % current_scheme.max_phase
       /\ ~(StepperInit \/ StepperCmndCalibrate \/ StepperCmndSpeed_select) =>
            PhaseOffset(current_phase', current_pos', current_scheme')
              = PhaseOffset(current_phase, current_pos, current_scheme)]_vars

\* five ticks of a Move in full_step (N = 4) from position 0, phase 0: the
\* phase index has followed the position past the end of the table
C27_Witness ==
  /\ current_scheme = control_schemes[1] /\ episode.op = "move"
  /\ episode.from_pos = 0 /\ episode.from_phase = 0
  /\ Len(episode.phases) = 5 /\ current_pos = 5 /\ current_phase = 1

\* |wanted_pos - current_pos|
Distance(w, p) == IF w >= p THEN w - p ELSE p - w

\* p lies in the closed interval between a and b
Between(a, p, b) == (a <= p /\ p <= b) \/ (b <= p /\ p <= a)

\* C28: a tick taken short of the target brings current_pos exactly one
\* step closer to wanted_pos, a tick taken at the target leaves current_pos
\* alone, and after a Move current_pos stays between the position it had at
\* the command and wanted_pos until the next command.
C28_NeverOvershoots ==
  [][/\ stepper_timer_isr =>
          /\ wanted_pos' = wanted_pos
          /\ wanted_pos # current_pos =>
               Distance(wanted_pos, current_pos') = Distance(wanted_pos, current_pos) - 1
          /\ wanted_pos = current_pos => current_pos' = current_pos
     /\ episode'.op = "move" =>
          Between(episode'.from_pos, current_pos', wanted_pos')]_vars

\* half way through a Move from 0 to 2: one tick taken, one step left
C28_Witness ==
  /\ episode.op = "move" /\ episode.from_pos = 0 /\ Len(episode.phases) = 1
  /\ wanted_pos = 2 /\ current_pos = 1 /\ ~idle /\ Armed

\* a step of StepperCmndSpeed that changes something: it stores a new tick
\* period, enters SelectScheme, or is the rest of SelectScheme
ConfigureStep ==
  \/ pc = "main" /\ (pc' = "speed_select" \/ tick_us' # tick_us)
  \/ StepperCmndSpeed_select

\* C30 (as stated): no step of Configure changes wanted_pos, idle or
\* lock_when_done, so a Move in progress keeps its target.
C30_ConfigureKeepsMotion ==
  [][ConfigureStep => UNCHANGED << wanted_pos, idle, lock_when_done >>]_vars

\* C30 (amended): a Configure leaves idle and lock_when_done unchanged; it
\* leaves wanted_pos unchanged unless it selects another scheme, and then it
\* sets wanted_pos to current_pos: the Move in progress is stopped where it
\* is.
C30_SchemeChangeStopsMotion ==
  [][ConfigureStep =>
       /\ UNCHANGED << idle, lock_when_done, current_pos >>
       /\ IF StepperCmndSpeed_select /\ cmd.scheme_code # current_scheme_index
            THEN wanted_pos' = current_pos
            ELSE wanted_pos' = wanted_pos]_vars

\* a Move from the stored position -1 towards 1 was stopped at 0 by a change
\* of scheme: wanted_pos is now 0, idle is still false
C30_Witness ==
  /\ pc = "main" /\ ~idle /\ RestorePos(Settings) = 0 - 1
  /\ current_pos = 0 /\ wanted_pos = 0 /\ current_phase = 0
  /\ BuiltIn(current_scheme) /\ ~Armed /\ ~lock_when_done

\* the pin levels after the first k of the writes ws, starting from g
AfterWrites(g, ws, k) == ApplyWrites(g, SubSeq(ws, 1, k))

\* the two direction lines of a coil are not both high
NoCoilBothHigh(g) ==
  /\ ~(g.A_pos = 1 /\ g.A_neg = 1)
  /\ ~(g.B_pos = 1 /\ g.B_neg = 1)

\* the outputs show the phase current_phase of one of the four schemes, or
\* the de-energized phase
ShowsCurrentPhase ==
  /\ BuiltIn(current_scheme)
  /\ \/ Shows(gpio, all_off)
     \/ Shows(gpio, PhaseTable(current_scheme.phases)[current_phase + 1])

\* C31: when the outputs show the current phase of one of the four schemes
\* or the de-energized phase, after every single pin write of a tick (a step
\* up or down to the adjacent phase, the locking or releasing arrival) and of
\* Calibrate the two direction lines of coil A are not both high, and
\* neither are those of coil B.
C31_NoCoilBothHigh ==
  [][((stepper_timer_isr \/ StepperCmndCalibrate) /\ ShowsCurrentPhase) =>
       \A k \in 0..Len(pin_writes') :
          NoCoilBothHigh(AfterWrites(gpio, pin_writes', k))]_vars

====
